---- MODULE Spec2Model ----
(***************************************************************************)
(* A model of the prices-predictor-system core:                            *)
(*   src/src/data_ingest.py    ZipDataIngestor, DataIngestorFactory        *)
(*   src/src/model_building.py LinearRegressionStrategy, ModelBuilder, main*)
(*                                                                         *)
(* Text (paths, file names, extensions) is a sequence of one-character     *)
(* strings, so that str.endswith and the directory listing are computed    *)
(* and not assumed.  The extracted directory ../extracted_data is a set of *)
(* files [name, data]; a directory exists there exactly when some file     *)
(* lies below it.                                                          *)
(***************************************************************************)
EXTENDS Integers, Sequences, FiniteSets, TLC

\* The largest number of entries of an archive.
MaxEntries == 2

(***************************************************************************)
(* Text                                                                    *)
(***************************************************************************)
DotZip == <<".", "z", "i", "p">>
DotCsv == <<".", "c", "s", "v">>

\* str.endswith(suffix)
EndsWith(s, suffix) ==
    /\ Len(s) >= Len(suffix)
    /\ SubSeq(s, Len(s) - Len(suffix) + 1, Len(s)) = suffix

SlashAt(p) == {i \in 1..Len(p) : p[i] = "/"}

\* The directories a path lies below: "d/e/f" lies below "d" and "d/e".
DirPrefixes(p) == {SubSeq(p, 1, i - 1) : i \in SlashAt(p)}

\* The immediate entry of the extracted directory a path belongs to.
TopName(p) ==
    IF SlashAt(p) = {} THEN p
    ELSE SubSeq(p, 1, (CHOOSE i \in SlashAt(p) : \A j \in SlashAt(p) : i <= j) - 1)

(***************************************************************************)
(* The inputs: file contents, archive entries, archives, paths, extensions *)
(***************************************************************************)
\* Two CSV texts, a sequence of lines, a line a sequence of cells.
CsvOne == << <<"x", "y">>, <<"1", "2">> >>
CsvTwo == << <<"p">>, <<"7">>, <<"8">> >>
Contents == {CsvOne, CsvTwo}

NameA    == <<"a", ".", "c", "s", "v">>
NameB    == <<"b", ".", "c", "s", "v">>
NameTxt  == <<"n", ".", "t", "x", "t">>
NameSub  == <<"d", "/", "a", ".", "c", "s", "v">>
NameDirA == <<"a", ".", "c", "s", "v", "/", "x">>
EntryNames == {NameA, NameB, NameTxt, NameSub, NameDirA}

Entries == [name : EntryNames, data : Contents]

Archives == UNION {[1..n -> Entries] : n \in 0..MaxEntries}

\* What lies at the path given to ingest: a zip archive, nothing, or a file
\* that is no zip archive.
Disks ==
    [state : {"archive"}, entries : Archives]
        \cup [state : {"missing", "corrupt"}, entries : {<< >>}]
NoDisk == [state |-> "unopened", entries |-> << >>]

PathZip  == <<"a", ".", "z", "i", "p">>
PathTxt  == <<"a", ".", "t", "x", "t">>
PathNear == <<"a", "z", "i", "p">>
Paths == {PathZip, PathTxt, PathNear}

Extensions == {DotZip, <<".", "t", "x", "t">>, <<".", "Z", "I", "P">>,
               <<"z", "i", "p">>, PathZip, << >>}

(***************************************************************************)
(* Results                                                                 *)
(***************************************************************************)
NoTable == [columns |-> << >>, rows |-> << >>]
Ok(t)      == [kind |-> "ok", exc |-> "", msg |-> "", table |-> t]
Err(e, m)  == [kind |-> "error", exc |-> e, msg |-> m, table |-> NoTable]
NoResult   == [kind |-> "none", exc |-> "", msg |-> "", table |-> NoTable]

NotZipMsg   == "The provided file is not a .zip file."
NoCsvMsg    == "No CSV files found in the extracted data."
MultipleMsg == "Multiple CSV files found in the extracted data."
NoIngestorMsg == "No ingestor available for file extension"
OsMsg       == "os"

(***************************************************************************)
(* The file system under ../extracted_data                                 *)
(***************************************************************************)
IsFile(files, p) == \E f \in files : f.name = p
IsDir(files, p)  == \E f \in files : p \in DirPrefixes(f.name)

\* Mutant: a member whose name exists is skipped, the older file kept.
extract_member_keep(files, e) ==
    IF \E q \in DirPrefixes(e.name) : IsFile(files, q)
    THEN [files |-> files, err |-> "NotADirectoryError"]
    ELSE IF IsDir(files, e.name)
    THEN [files |-> files, err |-> "IsADirectoryError"]
    ELSE IF IsFile(files, e.name) THEN [files |-> files, err |-> ""]
    ELSE [files |-> files \cup {e}, err |-> ""]

\* Mutant: the directory is emptied before a member is written.
extract_member_clean(files, e) == [files |-> {e}, err |-> ""]

\* zipfile.ZipFile._extract_member: the parent directories are made unless
\* they exist, then the target is opened for writing.
extract_member(files, e) ==
    IF \E q \in DirPrefixes(e.name) : IsFile(files, q)
    THEN [files |-> files, err |-> "NotADirectoryError"]
    ELSE IF IsDir(files, e.name)
    THEN [files |-> files, err |-> "IsADirectoryError"]
    ELSE [files |-> {f \in files : f.name # e.name} \cup {e}, err |-> ""]

\* zipfile.ZipFile.extractall: the members in the archive's order; the first
\* failure ends it and leaves what was written.
RECURSIVE extractall(_, _, _)
extractall(files, exists, entries) ==
    IF entries = << >> THEN [files |-> files, exists |-> exists, err |-> ""]
    ELSE LET m == extract_member(files, Head(entries))
         IN  IF m.err # "" THEN [files |-> m.files, exists |-> TRUE, err |-> m.err]
             ELSE extractall(m.files, TRUE, Tail(entries))

\* os.listdir: the immediate entries, files and directories alike.
listdir(files) == {TopName(f.name) : f \in files}

\* [f for f in extracted_files if f.endswith(".csv")]
csv_filter(names) == {f \in names : EndsWith(f, DotCsv)}

\* pandas.read_csv on a text: the first line names the columns.
parse_csv(text) ==
    IF text = << >> THEN Err("EmptyDataError", OsMsg)
    ELSE Ok([columns |-> Head(text), rows |-> Tail(text)])

\* pandas.read_csv on ../extracted_data/<name>
read_csv(files, name) ==
    IF IsDir(files, name) THEN Err("IsADirectoryError", OsMsg)
    ELSE parse_csv((CHOOSE f \in files : f.name = name).data)

(***************************************************************************)
(* ZipDataIngestor.ingest, as a function of the directory and the input    *)
(***************************************************************************)
Outcome(files, exists, opened, extracted, result) ==
    [files |-> files, exists |-> exists, opened |-> opened,
     extracted |-> extracted, result |-> result]

\* Mutant: of several CSV files one is picked.
find_csv_first(files, exists) ==
    IF ~exists THEN [result |-> Err("FileNotFoundError", OsMsg), csv_files |-> {}]
    ELSE LET csv_files == csv_filter(listdir(files))
         IN  IF Cardinality(csv_files) = 0
             THEN [result |-> Err("FileNotFoundError", NoCsvMsg), csv_files |-> {}]
             ELSE [result |-> NoResult,
                   csv_files |-> {CHOOSE f \in csv_files : TRUE}]

\* lines 35-41: list ../extracted_data, keep the names ending with .csv,
\* require exactly one.  os.listdir fails when the directory does not exist.
find_csv(files, exists) ==
    IF ~exists THEN [result |-> Err("FileNotFoundError", OsMsg), csv_files |-> {}]
    ELSE LET csv_files == csv_filter(listdir(files))
         IN  IF Cardinality(csv_files) = 0
             THEN [result |-> Err("FileNotFoundError", NoCsvMsg), csv_files |-> {}]
             ELSE IF Cardinality(csv_files) > 1
             THEN [result |-> Err("ValueError", MultipleMsg), csv_files |-> {}]
             ELSE [result |-> NoResult, csv_files |-> csv_files]

\* lines 43-46: read csv_files[0]
read_found(files, csv_files) == read_csv(files, CHOOSE f \in csv_files : TRUE)

\* lines 35-46
load(files, exists) ==
    LET l == find_csv(files, exists)
    IN  IF l.result.kind = "error" THEN l.result
        ELSE read_found(files, l.csv_files)

ingest(files, exists, file_path, disk) ==
    IF ~EndsWith(file_path, DotZip)
    THEN Outcome(files, exists, FALSE, FALSE, Err("ValueError", NotZipMsg))
    ELSE IF disk.state = "missing"
    THEN Outcome(files, exists, FALSE, FALSE, Err("FileNotFoundError", OsMsg))
    ELSE IF disk.state = "corrupt"
    THEN Outcome(files, exists, FALSE, FALSE, Err("BadZipFile", OsMsg))
    ELSE LET x == extractall(files, exists, disk.entries)
         IN  IF x.err # ""
             THEN Outcome(x.files, x.exists, TRUE, FALSE, Err(x.err, OsMsg))
             ELSE Outcome(x.files, x.exists, TRUE, TRUE, load(x.files, x.exists))

\* Mutant: the extension is matched by its ending.
get_data_ingestor_endswith(file_extension) ==
    IF EndsWith(file_extension, DotZip)
    THEN [ingestor |-> "ZipDataIngestor", result |-> Ok(NoTable)]
    ELSE [ingestor |-> "none", result |-> Err("ValueError", NoIngestorMsg)]

\* DataIngestorFactory.get_data_ingestor
get_data_ingestor(file_extension) ==
    IF file_extension = DotZip
    THEN [ingestor |-> "ZipDataIngestor", result |-> Ok(NoTable)]
    ELSE [ingestor |-> "none", result |-> Err("ValueError", NoIngestorMsg)]

(***************************************************************************)
(* Model building: the values given to a strategy                          *)
(***************************************************************************)
\* The largest number of rows of a feature table or a target.
MaxRows == 2

\* The number of distinct tables the preprocessing stages exchange.
MaxTables == 2

\* features and target: the container kind and the number of rows.
XVals == [kind : {"DataFrame", "list", "Series"}, rows : 1..MaxRows]
YVals == [kind : {"Series", "list", "DataFrame"}, rows : 1..MaxRows]
NoVal == [kind |-> "none", rows |-> 0]

NoModel == [fitted |-> FALSE, by |-> "", X |-> NoVal, y |-> NoVal]
Built(m)   == [kind |-> "ok", exc |-> "", msg |-> "", model |-> m]
Fail(e, m) == [kind |-> "error", exc |-> e, msg |-> m, model |-> NoModel]
NoBuild    == [kind |-> "none", exc |-> "", msg |-> "", model |-> NoModel]

XTypeMsg == "X_train must be a pandas DataFrame."
YTypeMsg == "y_train must be a pandas Series."
FitMsg   == "Found input variables with inconsistent numbers of samples"

\* What a call of build_and_train_model did: its result, the invocation
\* itself, the pipelines it constructed and the fits it started.
Trained(s, X_train, y_train, result, pipelines, fits) ==
    [result |-> result,
     invoked |-> <<[strategy |-> s, X |-> X_train, y |-> y_train]>>,
     pipelines |-> pipelines, fits |-> fits]

\* Pipeline.fit: scikit-learn refuses features and target of unequal length.
fit(X_train, y_train) ==
    IF X_train.rows # y_train.rows THEN Fail("ValueError", FitMsg)
    ELSE Built([fitted |-> TRUE, by |-> "StandardScaler+HistGradientBoostingRegressor",
                X |-> X_train, y |-> y_train])

\* Mutant: the target's kind is not checked.
LinearRegressionStrategy_unchecked_y(X_train, y_train) ==
    IF X_train.kind # "DataFrame"
    THEN Trained("LinearRegressionStrategy", X_train, y_train,
                 Fail("TypeError", XTypeMsg), 0, 0)
    ELSE Trained("LinearRegressionStrategy", X_train, y_train,
                 fit(X_train, y_train), 1, 1)

\* LinearRegressionStrategy.build_and_train_model
LinearRegressionStrategy(X_train, y_train) ==
    IF X_train.kind # "DataFrame"
    THEN Trained("LinearRegressionStrategy", X_train, y_train,
                 Fail("TypeError", XTypeMsg), 0, 0)
    ELSE IF y_train.kind # "Series"
    THEN Trained("LinearRegressionStrategy", X_train, y_train,
                 Fail("TypeError", YTypeMsg), 0, 0)
    ELSE Trained("LinearRegressionStrategy", X_train, y_train,
                 fit(X_train, y_train), 1, 1)

\* The implementations of ModelBuildingStrategy: the repository's one, one
\* that fits whatever it is given, one that always raises.
Strategies == {"LinearRegressionStrategy", "AnyStrategy", "RaisingStrategy"}

\* ModelBuildingStrategy.build_and_train_model, by the receiver's class
build_and_train_model(s, X_train, y_train) ==
    IF s = "LinearRegressionStrategy" THEN LinearRegressionStrategy(X_train, y_train)
    ELSE IF s = "AnyStrategy"
    THEN Trained(s, X_train, y_train,
                 Built([fitted |-> TRUE, by |-> s, X |-> X_train, y |-> y_train]), 0, 1)
    ELSE Trained(s, X_train, y_train, Fail("RuntimeError", s), 0, 0)

\* ModelBuilder.__init__: the value of self._strategy
ModelBuilder(new_strategy) == new_strategy

\* Mutant: set_strategy keeps the strategy the builder holds.
set_strategy_keep(self_strategy, new_strategy) == self_strategy

\* ModelBuilder.set_strategy: the new value of self._strategy
set_strategy(self_strategy, new_strategy) == new_strategy

\* ModelBuilder.build_model
build_model(self_strategy, X_train, y_train) ==
    build_and_train_model(self_strategy, X_train, y_train)

(***************************************************************************)
(* main(df) of model_building.py: the order of its stages                  *)
(***************************************************************************)
\* Mutant: missing-value handling is skipped.
main_step_skip(stage) ==
    IF stage = "od" THEN "ds"
    ELSE IF stage = "cmv" THEN "ds"
    ELSE IF stage = "ds" THEN "build"
    ELSE "done"

\* The stage that follows a stage that returned.
main_step(stage) ==
    IF stage = "od" THEN "cmv"
    ELSE IF stage = "cmv" THEN "ds"
    ELSE IF stage = "ds" THEN "build"
    ELSE "done"

Tables == 1..MaxTables

NoSplit == [X_train |-> NoVal, X_test |-> NoVal, y_train |-> NoVal, y_test |-> NoVal]
Splits  == [X_train : XVals, X_test : XVals, y_train : YVals, y_test : YVals]

NoReturn == [kind |-> "none", exc |-> "", model |-> NoModel,
             X_test |-> NoVal, y_test |-> NoVal]

StageCall(stage, input, output, X_train, y_train) ==
    [stage |-> stage, input |-> input, output |-> output,
     X |-> X_train, y |-> y_train]

(***************************************************************************)
(* State                                                                   *)
(***************************************************************************)
VARIABLES
    files,            \* the files under ../extracted_data
    exists,           \* whether ../extracted_data exists
    pc,               \* "idle", or "returned": a call has just ended
    call,             \* the call that has just ended, for the caller to see
    failedAmbiguous,  \* some ingest call has raised "Multiple CSV files found"
    strategy,         \* ModelBuilder._strategy
    installed,        \* the strategy last given to __init__ or set_strategy
    last,             \* the ModelBuilder or strategy call that has just ended
    mpc,              \* main(df): the stage to run next
    mdf,              \* main(df): the local df
    trace,            \* main(df): the stages invoked, in order
    split,            \* main(df): what ds.main returned
    mret,             \* main(df): what main returned or raised
    cpc,              \* concurrent ingest calls: each call's position
    cdisk,            \* concurrent ingest calls: each call's archive
    clist,            \* concurrent ingest calls: each call's csv_files
    cresult           \* concurrent ingest calls: each call's result

dirVars    == <<files, exists>>
ingestVars == <<pc, call, failedAmbiguous>>
buildVars  == <<strategy, installed, last>>
mainVars   == <<mpc, mdf, trace, split, mret>>
concVars   == <<cpc, cdisk, clist, cresult>>
vars == <<dirVars, ingestVars, buildVars, mainVars, concVars>>

Procs == {"call1", "call2"}

NoCall ==
    [op |-> "none", arg |-> << >>, disk |-> NoDisk, before |-> {},
     existed |-> FALSE, hadFailed |-> FALSE, opened |-> FALSE,
     extracted |-> FALSE, ingestor |-> "none", result |-> NoResult]

NoLast ==
    [op |-> "none", X |-> NoVal, y |-> NoVal, held |-> "", given |-> "",
     invoked |-> << >>, pipelines |-> 0, fits |-> 0, result |-> NoBuild]

\* The parts of the state an ingestion run, a model builder, a run of main and
\* the concurrent calls start from.
DirInit ==
    /\ files = {}
    /\ exists \in BOOLEAN

DirUnused ==
    /\ files = {}
    /\ exists = FALSE

IngestIdle ==
    /\ pc = "idle"
    /\ call = NoCall
    /\ failedAmbiguous = FALSE

BuildIdle ==
    /\ strategy = ModelBuilder("LinearRegressionStrategy")
    /\ installed = "LinearRegressionStrategy"
    /\ last = NoLast

MainIdle ==
    /\ mpc = "start"
    /\ mdf = 0
    /\ trace = << >>
    /\ split = NoSplit
    /\ mret = NoReturn

ConcIdle ==
    /\ cpc = [p \in Procs |-> "start"]
    /\ cdisk = [p \in Procs |-> << >>]
    /\ clist = [p \in Procs |-> {}]
    /\ cresult = [p \in Procs |-> NoResult]

(***************************************************************************)
(* Ingestion: calls of the factory and of the ingestor, one after another  *)
(***************************************************************************)
Init == DirInit /\ IngestIdle /\ BuildIdle /\ MainIdle /\ ConcIdle

\* ZipDataIngestor().ingest(file_path), with `disk` at file_path
Ingest ==
    /\ pc = "idle"
    /\ \E file_path \in Paths, disk \in Disks :
         LET o == ingest(files, exists, file_path, disk)
         IN  /\ files' = o.files
             /\ exists' = o.exists
             /\ call' = [op |-> "ingest", arg |-> file_path,
                         disk |-> IF EndsWith(file_path, DotZip) THEN disk ELSE NoDisk,
                         before |-> files, existed |-> exists,
                         hadFailed |-> failedAmbiguous, opened |-> o.opened,
                         extracted |-> o.extracted,
                         ingestor |-> "none", result |-> o.result]
             /\ failedAmbiguous' =
                  (failedAmbiguous \/ o.result = Err("ValueError", MultipleMsg))
    /\ pc' = "returned"
    /\ UNCHANGED <<buildVars, mainVars, concVars>>

\* DataIngestorFactory.get_data_ingestor(file_extension)
GetDataIngestor ==
    /\ pc = "idle"
    /\ \E file_extension \in Extensions :
         LET g == get_data_ingestor(file_extension)
         IN  call' = [op |-> "get_data_ingestor", arg |-> file_extension,
                      disk |-> NoDisk, before |-> files, existed |-> exists,
                      hadFailed |-> failedAmbiguous, opened |-> FALSE,
                      extracted |-> FALSE,
                      ingestor |-> g.ingestor, result |-> g.result]
    /\ pc' = "returned"
    /\ UNCHANGED <<dirVars, failedAmbiguous, buildVars, mainVars, concVars>>

\* The caller has its table, its ingestor or its exception.
Return ==
    /\ pc = "returned"
    /\ pc' = "idle"
    /\ call' = NoCall
    /\ UNCHANGED <<dirVars, failedAmbiguous, buildVars, mainVars, concVars>>

Next == Ingest \/ GetDataIngestor \/ Return

Spec == Init /\ [][Next]_vars

(***************************************************************************)
(* Model building: a ModelBuilder and the calls made on it                 *)
(***************************************************************************)
\* ModelBuilder(strategy): the constructor's strategy is the one held.
BuildInit ==
    /\ DirUnused /\ IngestIdle /\ MainIdle /\ ConcIdle
    /\ \E s \in Strategies :
         /\ strategy = ModelBuilder(s)
         /\ installed = s
    /\ last = NoLast

\* model_builder.set_strategy(s)
SetStrategy ==
    /\ \E s \in Strategies :
         /\ strategy' = set_strategy(strategy, s)
         /\ installed' = s
         /\ last' = [NoLast EXCEPT !.op = "set_strategy", !.held = strategy,
                                   !.given = s]
    /\ UNCHANGED <<dirVars, ingestVars, mainVars, concVars>>

\* model_builder.build_model(X_train, y_train)
BuildModel ==
    /\ \E X_train \in XVals, y_train \in YVals :
         LET t == build_model(strategy, X_train, y_train)
         IN  last' = [op |-> "build_model", X |-> X_train, y |-> y_train,
                      held |-> strategy, given |-> last.given,
                      invoked |-> t.invoked,
                      pipelines |-> t.pipelines, fits |-> t.fits,
                      result |-> t.result]
    /\ UNCHANGED <<strategy, installed, dirVars, ingestVars, mainVars, concVars>>

\* LinearRegressionStrategy().build_and_train_model(X_train, y_train)
TrainLinearRegression ==
    /\ \E X_train \in XVals, y_train \in YVals :
         LET t == LinearRegressionStrategy(X_train, y_train)
         IN  last' = [op |-> "build_and_train_model", X |-> X_train,
                      y |-> y_train, held |-> "LinearRegressionStrategy",
                      given |-> last.given, invoked |-> t.invoked,
                      pipelines |-> t.pipelines, fits |-> t.fits,
                      result |-> t.result]
    /\ UNCHANGED <<strategy, installed, dirVars, ingestVars, mainVars, concVars>>

BuildNext == SetStrategy \/ BuildModel \/ TrainLinearRegression

SpecBuild == BuildInit /\ [][BuildNext]_vars

(***************************************************************************)
(* main(df): outlier removal, missing values, split, model build           *)
(***************************************************************************)
MainInit == DirUnused /\ IngestIdle /\ BuildIdle /\ MainIdle /\ ConcIdle

Raised(stage) == [NoReturn EXCEPT !.kind = "error", !.exc = stage]

\* main(df) is entered.
MainStart ==
    /\ mpc = "start"
    /\ \E df \in Tables :
         /\ mdf' = df
         /\ trace' = <<StageCall("main", df, 0, NoVal, NoVal)>>
    /\ mpc' = "od"
    /\ UNCHANGED <<split, mret, dirVars, ingestVars, buildVars, concVars>>

\* df = od.main(df): the collaborator returns a table (out) or raises (0).
OutlierStage ==
    /\ mpc = "od"
    /\ \E out \in Tables \cup {0} :
         /\ trace' = Append(trace, StageCall("od.main", mdf, out, NoVal, NoVal))
         /\ IF out = 0
            THEN mpc' = "failed" /\ mret' = Raised("od.main") /\ UNCHANGED mdf
            ELSE mpc' = main_step("od") /\ mdf' = out /\ UNCHANGED mret
    /\ UNCHANGED <<split, dirVars, ingestVars, buildVars, concVars>>

\* df = cmv.main(df)
MissingValueStage ==
    /\ mpc = "cmv"
    /\ \E out \in Tables \cup {0} :
         /\ trace' = Append(trace, StageCall("cmv.main", mdf, out, NoVal, NoVal))
         /\ IF out = 0
            THEN mpc' = "failed" /\ mret' = Raised("cmv.main") /\ UNCHANGED mdf
            ELSE mpc' = main_step("cmv") /\ mdf' = out /\ UNCHANGED mret
    /\ UNCHANGED <<split, dirVars, ingestVars, buildVars, concVars>>

\* X_train, X_test, y_train, y_test = ds.main(df): four parts, or NoSplit
\* when the collaborator raises or what it returns does not unpack to four.
SplitStage ==
    /\ mpc = "ds"
    /\ \E r \in Splits \cup {NoSplit} :
         /\ trace' = Append(trace, StageCall("ds.main", mdf, 0, NoVal, NoVal))
         /\ split' = r
         /\ IF r = NoSplit
            THEN mpc' = "failed" /\ mret' = Raised("ds.main")
            ELSE mpc' = main_step("ds") /\ UNCHANGED mret
    /\ UNCHANGED <<mdf, dirVars, ingestVars, buildVars, concVars>>

\* ModelBuilder(LinearRegressionStrategy()).build_model(X_train, y_train),
\* then return trained_model, X_test, y_test
BuildStage ==
    /\ mpc = "build"
    /\ LET t == build_model(ModelBuilder("LinearRegressionStrategy"),
                            split.X_train, split.y_train)
       IN  /\ trace' = Append(trace, StageCall("build_model", 0, 0,
                                               t.invoked[1].X, t.invoked[1].y))
           /\ IF t.result.kind = "error"
              THEN mpc' = "failed" /\ mret' = Raised(t.result.exc)
              ELSE /\ mpc' = main_step("build")
                   /\ mret' = [kind |-> "ok", exc |-> "", model |-> t.result.model,
                               X_test |-> split.X_test, y_test |-> split.y_test]
    /\ UNCHANGED <<mdf, split, dirVars, ingestVars, buildVars, concVars>>

MainNext ==
    MainStart \/ OutlierStage \/ MissingValueStage \/ SplitStage \/ BuildStage

SpecMain == MainInit /\ [][MainNext]_vars

(***************************************************************************)
(* Two ingest calls interleaved on ../extracted_data.  Each is given an    *)
(* archive of one CSV file; a call runs lines 29-33 (open, extract), then  *)
(* lines 35-41 (list, filter, count), then lines 43-46 (read).             *)
(***************************************************************************)
ConcArchives == {<<e>> : e \in {x \in Entries : x.name \in {NameA, NameB}}}

ConcInit == DirInit /\ IngestIdle /\ BuildIdle /\ MainIdle /\ ConcIdle

Other(p) == CHOOSE q \in Procs : q # p

CExtract(p) ==
    /\ cpc[p] = "start"
    /\ \E a \in ConcArchives :
         LET x == extractall(files, exists, a)
         IN  /\ files' = x.files
             /\ exists' = x.exists
             /\ cdisk' = [cdisk EXCEPT ![p] = a]
             /\ IF x.err # ""
                THEN /\ cpc' = [cpc EXCEPT ![p] = "done"]
                     /\ cresult' = [cresult EXCEPT ![p] = Err(x.err, OsMsg)]
                ELSE /\ cpc' = [cpc EXCEPT ![p] = "extracted"]
                     /\ UNCHANGED cresult
    /\ UNCHANGED <<clist, ingestVars, buildVars, mainVars>>

CList(p) ==
    /\ cpc[p] = "extracted"
    /\ LET l == find_csv(files, exists)
       IN  IF l.result.kind = "error"
           THEN /\ cpc' = [cpc EXCEPT ![p] = "done"]
                /\ cresult' = [cresult EXCEPT ![p] = l.result]
                /\ UNCHANGED clist
           ELSE /\ cpc' = [cpc EXCEPT ![p] = "listed"]
                /\ clist' = [clist EXCEPT ![p] = l.csv_files]
                /\ UNCHANGED cresult
    /\ UNCHANGED <<cdisk, dirVars, ingestVars, buildVars, mainVars>>

CRead(p) ==
    /\ cpc[p] = "listed"
    /\ cresult' = [cresult EXCEPT ![p] = read_found(files, clist[p])]
    /\ cpc' = [cpc EXCEPT ![p] = "done"]
    /\ UNCHANGED <<cdisk, clist, dirVars, ingestVars, buildVars, mainVars>>

ConcNext == \E p \in Procs : CExtract(p) \/ CList(p) \/ CRead(p)

SpecConc == ConcInit /\ [][ConcNext]_vars

(***************************************************************************)
(* What the claims speak of                                                *)
(***************************************************************************)
FileNames(fs) == {f.name : f \in fs}

\* An ingest call has just ended.
IngestReturned == pc = "returned" /\ call.op = "ingest"

\* An ingest call on a readable .zip archive has just ended: the path ends
\* with .zip, zipfile opened the archive and extractall ran to its end.
ReadableReturned == IngestReturned /\ call.extracted

ArchiveNames(entries) == {entries[i].name : i \in 1..Len(entries)}

\* The CSV files of an archive, at any depth.
ArchiveCsvFiles(entries) == {n \in ArchiveNames(entries) : EndsWith(n, DotCsv)}

\* The immediate entries an archive extracts to whose name ends with .csv.
ArchiveCsvTop(entries) == csv_filter({TopName(n) : n \in ArchiveNames(entries)})

\* What an archive writes under a name: its last entry of that name.
LastData(entries, n) ==
    entries[CHOOSE i \in 1..Len(entries) :
               /\ entries[i].name = n
               /\ \A j \in 1..Len(entries) : entries[j].name = n => j <= i].data

\* The archive holds exactly one CSV file, at the top level, and nothing else
\* that lists as a CSV.
OneCsv(entries) ==
    /\ Cardinality(ArchiveCsvFiles(entries)) = 1
    /\ ArchiveCsvTop(entries) = ArchiveCsvFiles(entries)

OwnCsv(entries) == CHOOSE n \in ArchiveCsvFiles(entries) : TRUE

\* The archive holds no CSV file and nothing that lists as a CSV.
ZeroCsv(entries) == ArchiveCsvFiles(entries) = {} /\ ArchiveCsvTop(entries) = {}

NotFound  == Err("FileNotFoundError", NoCsvMsg)
Ambiguous == Err("ValueError", MultipleMsg)

(***************************************************************************)
(* C1: every ingest of a readable .zip archive that holds exactly one CSV  *)
(* file returns the table parsed from that archive's own CSV, whatever     *)
(* earlier calls left in ../extracted_data.                                *)
(***************************************************************************)
C1_RoundTripEveryCall ==
    (ReadableReturned /\ OneCsv(call.disk.entries)) =>
        call.result =
            parse_csv(LastData(call.disk.entries, OwnCsv(call.disk.entries)))

(***************************************************************************)
(* C2: every ingest of a readable .zip archive that holds no CSV file      *)
(* fails with FileNotFoundError; it returns no table and does not fail     *)
(* with the ambiguous-input error, whatever earlier calls left behind.     *)
(***************************************************************************)
C2_ZeroCsvNotFound ==
    (ReadableReturned /\ ZeroCsv(call.disk.entries)) =>
        /\ call.result.kind = "error"
        /\ call.result.exc = "FileNotFoundError"

(***************************************************************************)
(* C3, as stated: every ingest of a readable .zip archive that holds two   *)
(* or more CSV files fails with ValueError "Multiple CSV files found".     *)
(***************************************************************************)
C3_TwoCsvFilesAmbiguous ==
    (ReadableReturned /\ Cardinality(ArchiveCsvFiles(call.disk.entries)) >= 2) =>
        call.result = Ambiguous

(***************************************************************************)
(* C3, amended: every ingest of a readable .zip archive whose extraction   *)
(* runs to its end and that holds two or more immediate entries (files or  *)
(* directories at its top level) whose name ends with .csv fails with      *)
(* ValueError "Multiple CSV files found"; so does every call that leaves   *)
(* two or more such entries in ../extracted_data, none is picked by name,  *)
(* size or recency; and a table is returned only when the directory holds  *)
(* exactly one such entry.  CSV files below a directory are not counted.   *)
(***************************************************************************)
C3_TopLevelCsvAmbiguous ==
    ReadableReturned =>
        LET csv_files == csv_filter(listdir(files))
        IN  /\ Cardinality(ArchiveCsvTop(call.disk.entries)) >= 2
                   => call.result = Ambiguous
            /\ Cardinality(csv_files) >= 2 => call.result = Ambiguous
            /\ call.result.kind = "ok" => Cardinality(csv_files) = 1

C3_Witness ==
    /\ ReadableReturned
    /\ call.before = {}
    /\ Cardinality(ArchiveCsvTop(call.disk.entries)) >= 2
    /\ call.result = Ambiguous

(***************************************************************************)
(* C4: an unsupported extension is rejected before any extraction.         *)
(* get_data_ingestor raises ValueError for every extension other than      *)
(* exactly ".zip" and returns a ZipDataIngestor for ".zip"; ingest raises  *)
(* ValueError for every path that does not end with ".zip"; a rejection    *)
(* leaves ../extracted_data as it was and opens no archive.                *)
(***************************************************************************)
C4_RejectedBeforeExtraction ==
    pc = "returned" =>
        /\ (call.op = "get_data_ingestor" /\ call.arg # DotZip) =>
              /\ call.result = Err("ValueError", NoIngestorMsg)
              /\ call.ingestor = "none"
              /\ files = call.before /\ exists = call.existed /\ ~call.opened
        /\ (call.op = "get_data_ingestor" /\ call.arg = DotZip) =>
              /\ call.result.kind = "ok"
              /\ call.ingestor = "ZipDataIngestor"
              /\ files = call.before /\ exists = call.existed /\ ~call.opened
        /\ (call.op = "ingest" /\ ~EndsWith(call.arg, DotZip)) =>
              /\ call.result = Err("ValueError", NotZipMsg)
              /\ files = call.before /\ exists = call.existed /\ ~call.opened

C4_Witness ==
    /\ pc = "returned"
    /\ call.op = "get_data_ingestor"
    /\ call.arg = PathZip
    /\ call.result.kind = "error"
    /\ files # {}

(***************************************************************************)
(* C9: ../extracted_data is populated additively and never cleaned.  No    *)
(* ingest call, successful or failed, removes a file name; every entry of  *)
(* an archive that was extracted is in the directory afterwards with the   *)
(* archive's content, also when the call then fails with the not-found or  *)
(* the ambiguous-input error, so an entry whose name existed replaces the  *)
(* older content; files the archive does not name keep their content.      *)
(***************************************************************************)
C9_AdditiveNeverCleaned ==
    IngestReturned =>
        /\ FileNames(call.before) \subseteq FileNames(files)
        /\ call.extracted =>
              /\ \A n \in ArchiveNames(call.disk.entries) :
                    [name |-> n, data |-> LastData(call.disk.entries, n)] \in files
              /\ \A f \in call.before :
                    f.name \notin ArchiveNames(call.disk.entries) => f \in files

C9_Witness ==
    /\ IngestReturned
    /\ call.extracted
    /\ call.result = Ambiguous
    /\ \E f \in call.before : \E g \in files : g.name = f.name /\ g.data # f.data

(***************************************************************************)
(* C10, as stated: once an ingest call has raised "Multiple CSV files      *)
(* found", every later ingest of a readable .zip archive (one that zipfile *)
(* opens), whatever it holds, raises it too; and once ../extracted_data    *)
(* holds an immediate entry named *.csv, no later ingest of a readable     *)
(* .zip archive raises "No CSV files found".                               *)
(***************************************************************************)
C10_PermanentWhateverArchive ==
    (IngestReturned /\ call.opened) =>
        /\ call.hadFailed => call.result = Ambiguous
        /\ csv_filter(listdir(call.before)) # {} => call.result # NotFound

(***************************************************************************)
(* C10, amended: once an ingest call has raised "Multiple CSV files        *)
(* found", every later ingest of a readable .zip archive whose extraction  *)
(* runs to its end raises it too, whatever the archive holds (an archive   *)
(* with an entry that is a file where the directory has a directory, or    *)
(* the reverse, fails in extractall with the OS error instead); and once   *)
(* ../extracted_data holds an immediate entry named *.csv, no later ingest *)
(* of a readable .zip archive raises "No CSV files found".                 *)
(***************************************************************************)
C10_AmbiguousIsPermanent ==
    (IngestReturned /\ call.opened) =>
        /\ (call.hadFailed /\ call.extracted) => call.result = Ambiguous
        /\ (call.hadFailed /\ ~call.extracted) =>
              call.result.exc \in {"NotADirectoryError", "IsADirectoryError"}
        /\ csv_filter(listdir(call.before)) # {} => call.result # NotFound

C10_Witness ==
    /\ ReadableReturned
    /\ call.hadFailed
    /\ OneCsv(call.disk.entries)
    /\ call.result = Ambiguous

(***************************************************************************)
(* C5 (SpecBuild): LinearRegressionStrategy.build_and_train_model raises   *)
(* TypeError whenever features is no DataFrame or target is no Series, and *)
(* it does so before the pipeline is constructed or fitted: no pipeline,   *)
(* no fit, no fitted artifact, and the input is not coerced.  It holds for *)
(* a direct call and for one made through ModelBuilder.build_model.        *)
(***************************************************************************)
OnLinearRegression ==
    \/ last.op = "build_and_train_model"
    \/ last.op = "build_model" /\ last.held = "LinearRegressionStrategy"

C5_TypeErrorBeforePipeline ==
    (OnLinearRegression /\ (last.X.kind # "DataFrame" \/ last.y.kind # "Series")) =>
        /\ last.result.kind = "error"
        /\ last.result.exc = "TypeError"
        /\ last.result.model = NoModel
        /\ last.pipelines = 0
        /\ last.fits = 0

C5_Witness ==
    /\ last.op = "build_and_train_model"
    /\ last.X.kind = "DataFrame"
    /\ last.y.kind = "list"
    /\ last.result = Fail("TypeError", YTypeMsg)

(***************************************************************************)
(* C6 (SpecBuild): after any sequence of construction, set_strategy and    *)
(* build_model calls the builder holds the strategy installed last (the    *)
(* constructor's if set_strategy was never called); build_model(X, y)      *)
(* invokes build_and_train_model exactly once, on that strategy, with X    *)
(* and y as given, returns that strategy's result or error as it is, and   *)
(* leaves the held strategy alone; the builder validates nothing itself.   *)
(***************************************************************************)
C6_BuildDelegatesToInstalled ==
    /\ strategy = installed
    /\ last.given # "" => installed = last.given
    /\ last.op = "build_model" =>
          /\ last.held = installed
          /\ last.invoked = <<[strategy |-> installed, X |-> last.X, y |-> last.y]>>
          /\ last.result = build_and_train_model(installed, last.X, last.y).result
          /\ (installed = "AnyStrategy" => last.result.kind = "ok")

C6_Witness ==
    /\ last.op = "build_model"
    /\ last.given = "AnyStrategy"
    /\ last.X.kind = "list"
    /\ last.result.kind = "ok"
    /\ last.result.model.X = last.X

(***************************************************************************)
(* C7 (SpecMain): main(df) invokes outlier removal, missing-value          *)
(* handling, split and model build once each, in that order; each stage    *)
(* is given the table the stage before it returned; the model is built on  *)
(* the split's training parts; what main returns besides the model are the *)
(* split's test parts; and a stage that raises ends the run: no later      *)
(* stage is invoked and none is invoked again.                             *)
(***************************************************************************)
StageOrder == <<"main", "od.main", "cmv.main", "ds.main", "build_model">>

\* The i-th invocation raised.
StageRaised(i) ==
    \/ trace[i].stage \in {"od.main", "cmv.main"} /\ trace[i].output = 0
    \/ trace[i].stage = "ds.main" /\ split = NoSplit
    \/ trace[i].stage = "build_model" /\ mret.kind = "error"

C7_StagesOnceInOrder ==
    LET n == Len(trace)
    IN  /\ n <= Len(StageOrder)
        /\ \A i \in 1..n : trace[i].stage = StageOrder[i]
        /\ \A i \in 1..n : i < n => ~StageRaised(i)
        /\ n >= 2 => trace[2].input = trace[1].input
        /\ \A i \in 3..n : i <= 4 => trace[i].input = trace[i - 1].output
        /\ n = 5 => /\ trace[5].X = split.X_train
                    /\ trace[5].y = split.y_train
        /\ mpc = "done" =>
              /\ n = 5
              /\ mret.kind = "ok"
              /\ mret.model.fitted
              /\ mret.model.X = split.X_train /\ mret.model.y = split.y_train
              /\ mret.X_test = split.X_test /\ mret.y_test = split.y_test
        /\ mpc = "failed" =>
              /\ n >= 2 /\ StageRaised(n)
              /\ mret.kind = "error"
              /\ ~ENABLED MainNext

C7_Witness ==
    /\ mpc = "done"
    /\ trace[2].input # trace[2].output
    /\ trace[3].input # trace[3].output
    /\ split.X_test # split.X_train
    /\ mret.X_test = split.X_test

(***************************************************************************)
(* C8 (SpecConc): concurrent ingest calls are not isolated.  A call on an  *)
(* archive of one CSV file that does not return its own archive's table    *)
(* has been interfered with by the other call: the other call had          *)
(* extracted, and the call either raised "Multiple CSV files found" (the   *)
(* archives' CSV names differ) or read the file the other call wrote (the  *)
(* names are the same).  The witness is an interleaving of the second kind.*)
(***************************************************************************)
OwnTable(p) == parse_csv(cdisk[p][1].data)

C8_NotOwnOnlyByInterference ==
    \A p \in Procs :
        cpc[p] = "done" =>
            \/ cresult[p] = OwnTable(p)
            \/ /\ cpc[Other(p)] # "start"
               /\ \/ /\ cdisk[Other(p)][1].name # cdisk[p][1].name
                     /\ cresult[p] = Ambiguous
                  \/ /\ cdisk[Other(p)][1].name = cdisk[p][1].name
                     /\ cresult[p] = OwnTable(Other(p))

C8_Witness ==
    \E p \in Procs :
        /\ cpc[p] = "done"
        /\ cpc[Other(p)] # "start"
        /\ cresult[p].kind = "ok"
        /\ cresult[p] # OwnTable(p)
        /\ cresult[p] = OwnTable(Other(p))

====
